---- MODULE Spec2Model ----
(***************************************************************************)
(* Model of the Pipedrive email archiver (src/archiver.js): one process    *)
(* that parses its flags, fetches every page of the inbox, splits the      *)
(* threads by archived_flag, asks for confirmation and archives the        *)
(* unarchived threads one PUT at a time.  The remote service and the user  *)
(* are the environment: every response and every answer is chosen          *)
(* nondeterministically.                                                   *)
(***************************************************************************)
EXTENDS Integers, Sequences, FiniteSets

\* ---- bound of the environment ----
MaxThreads == 3     \* the inbox yields at most this many threads over all pages

\* ---- program constants ----
limit == 100        \* getAllThreads: const limit = 100

VARIABLES
    pc,                \* position of the process
    argv,              \* command line flags (set of strings)
    apiToken,          \* TRUE iff PIPEDRIVE_API_TOKEN is set
    stats,             \* this.stats
    allThreads,        \* getAllThreads: allThreads
    hasMore,           \* getAllThreads: hasMore
    start,             \* getAllThreads: start
    unarchivedThreads, \* displayThreadInfo: unarchived (run: unarchivedThreads)
    archived,          \* displayThreadInfo: archived
    i,                 \* archiveAll: loop index
    exitCode,          \* process exit code, -1 while the process runs
    result,            \* which path the run took to its end
    gets,              \* list requests issued so far (start, limit)
    pages,             \* successful list responses received so far
    puts,              \* ids sent in PUT requests so far
    acks,              \* PUT responses that acknowledged success
    errLogged,         \* "Failed to archive thread" lines written
    prompts,           \* number of times inquirer.prompt was invoked
    wouldArchive,      \* threads listed as "Would archive"
    statsPrinted       \* what displayStats printed, <<>> if it did not run

vars == <<pc, argv, apiToken, stats, allThreads, hasMore, start,
          unarchivedThreads, archived, i, exitCode, result, gets, pages,
          puts, acks, errLogged, prompts, wouldArchive, statsPrinted>>

\* ---- data ----
Flags == {"--help", "-h", "--dry-run", "--yes", "-y"}
ThreadIds == {1, 2}
FlagValues == {0, 1}
Threads == [id : ThreadIds, archived_flag : FlagValues]
PageData == UNION {[1..n -> Threads] : n \in 0..MaxThreads}
Responses == [data : PageData, more : BOOLEAN]
PutOutcomes == {"success", "rejected", "thrown"}
ZeroStats == [total |-> 0, archived |-> 0, alreadyArchived |-> 0, failed |-> 0]

\* ---- helpers ----
\* JavaScript truthiness of archived_flag
Truthy(flag) == flag # 0

\* faulty variant: displayThreadInfo hands back the threads unfiltered
filter_unfiltered(threads, want) == threads

\* faulty variant: the filtered list is built back to front
RECURSIVE filter_reversed(_, _)
filter_reversed(threads, want) ==
    IF threads = <<>> THEN <<>>
    ELSE LET t == Head(threads)
             rest == filter_reversed(Tail(threads), want)
         IN IF Truthy(t.archived_flag) = want THEN rest \o <<t>> ELSE rest

\* Array.prototype.filter with the predicate t => !t.archived_flag (want = FALSE)
\* or t => t.archived_flag (want = TRUE)
RECURSIVE filter(_, _)
filter(threads, want) ==
    IF threads = <<>> THEN <<>>
    ELSE LET t == Head(threads)
             rest == filter(Tail(threads), want)
         IN IF Truthy(t.archived_flag) = want THEN <<t>> \o rest ELSE rest

\* faulty variant: the short form -h is not looked for
help_longOnly == "--help" \in argv

\* options.help / args.includes('--help') || args.includes('-h')
help == "--help" \in argv \/ "-h" \in argv

\* faulty variant: archiveAll looks for a flag the command line never carries
isDryRun_wrongFlag == "--dryrun" \in argv

\* process.argv.includes('--dry-run')
isDryRun == "--dry-run" \in argv

\* faulty variant: a dry run counts as confirmed
skipConfirm_orDryRun == "--yes" \in argv \/ "-y" \in argv \/ "--dry-run" \in argv

\* faulty variant: the short form -y is not looked for
skipConfirm_longOnly == "--yes" \in argv

\* process.argv.includes('--yes') || process.argv.includes('-y')
skipConfirm == "--yes" \in argv \/ "-y" \in argv

\* data.data && data.data.length > 0
pageHasItems(resp) == Len(resp.data) > 0

\* data.additional_data?.pagination?.more_items_in_collection; resp.more is
\* FALSE as well when the indicator or one of its parents is absent
moreItems(resp) == resp.more

\* faulty variant: the pagination indicator is ignored, only an empty page ends the loop
nextHasMore_ignoresIndicator(resp) == pageHasItems(resp)

\* hasMore after one page was handled by the loop body
nextHasMore(resp) == pageHasItems(resp) /\ moreItems(resp)

\* allThreads after one page was handled by the loop body
nextAllThreads(all, resp) == IF pageHasItems(resp) THEN all \o resp.data ELSE all

\* faulty variant: the offset advances by the number of items received
nextStart_byItems(s, resp) == IF pageHasItems(resp) THEN s + Len(resp.data) ELSE s

\* start after one page was handled by the loop body
nextStart(s, resp) == IF pageHasItems(resp) THEN s + limit ELSE s

\* faulty variant: an unacknowledged response is not counted (line 71 left out)
statsAfterArchive_dropsRejected(s, outcome) ==
    IF outcome = "success"
    THEN [s EXCEPT !.archived = @ + 1]
    ELSE IF outcome = "thrown" THEN [s EXCEPT !.failed = @ + 1] ELSE s

\* this.stats after archiveThread got the given outcome
statsAfterArchive(s, outcome) ==
    IF outcome = "success"
    THEN [s EXCEPT !.archived = @ + 1]
    ELSE [s EXCEPT !.failed = @ + 1]

\* catch branch of archiveThread: console.error("Failed to archive thread ...")
logsError(outcome) == outcome = "thrown"

\* faulty variant: the loop always takes the first thread of the list
putTarget_alwaysFirst(threads, k) == threads[1].id

\* thread.id of threads[i] (i counts from 0), the id archiveThread puts
putTarget(threads, k) == threads[k + 1].id

\* faulty variant: total is never set
statsAtLoopStart_noTotal(s, threads) == s

\* this.stats.total = threads.length
statsAtLoopStart(s, threads) == [s EXCEPT !.total = Len(threads)]

\* i < threads.length, the condition of the for loop
loopContinues(k, threads) == k < Len(threads)

\* faulty variant: the results are printed only when something was processed
displayStats_onlyIfProcessed(s) ==
    IF s.total > 0
    THEN <<[total |-> s.total, archived |-> s.archived, failed |-> s.failed]>>
    ELSE <<>>

\* displayStats(): the printed totals
displayStats(s) == <<[total |-> s.total, archived |-> s.archived, failed |-> s.failed]>>

\* ---- initial state: the process has been started ----
Init ==
    /\ pc = "parseArgs"
    /\ argv \in SUBSET Flags
    /\ apiToken \in BOOLEAN
    /\ stats = ZeroStats
    /\ allThreads = <<>>
    /\ hasMore = TRUE
    /\ start = 0
    /\ unarchivedThreads = <<>>
    /\ archived = <<>>
    /\ i = 0
    /\ exitCode = -1
    /\ result = "running"
    /\ gets = <<>>
    /\ pages = <<>>
    /\ puts = <<>>
    /\ acks = 0
    /\ errLogged = 0
    /\ prompts = 0
    /\ wouldArchive = <<>>
    /\ statsPrinted = <<>>

\* ---- actions ----
\* parseArgs(): print the help and exit 0, or go on to the constructor
parseArgs ==
    /\ pc = "parseArgs"
    /\ IF help
       THEN /\ pc' = "exited"
            /\ exitCode' = 0
            /\ result' = "help"
       ELSE /\ pc' = "constructor"
            /\ UNCHANGED <<exitCode, result>>
    /\ UNCHANGED <<argv, apiToken, stats, allThreads, hasMore, start,
                   unarchivedThreads, archived, i, gets, pages, puts, acks,
                   errLogged, prompts, wouldArchive, statsPrinted>>

\* faulty variant: the constructor does not check the token
constructor_noTokenCheck ==
    /\ pc = "constructor"
    /\ pc' = "run"
    /\ stats' = ZeroStats
    /\ UNCHANGED <<argv, apiToken, allThreads, hasMore, start,
                   unarchivedThreads, archived, i, exitCode, result, gets,
                   pages, puts, acks, errLogged, prompts, wouldArchive,
                   statsPrinted>>

\* new PipedriveEmailArchiver(): exit 1 without a token, else zero the stats
constructor ==
    /\ pc = "constructor"
    /\ IF ~apiToken
       THEN /\ pc' = "exited"
            /\ exitCode' = 1
            /\ result' = "noToken"
            /\ UNCHANGED stats
       ELSE /\ pc' = "run"
            /\ stats' = ZeroStats
            /\ UNCHANGED <<exitCode, result>>
    /\ UNCHANGED <<argv, apiToken, allThreads, hasMore, start,
                   unarchivedThreads, archived, i, gets, pages, puts, acks,
                   errLogged, prompts, wouldArchive, statsPrinted>>

\* run() up to the while loop of getAllThreads()
run ==
    /\ pc = "run"
    /\ pc' = "getAllThreads"
    /\ allThreads' = <<>>
    /\ hasMore' = TRUE
    /\ start' = 0
    /\ UNCHANGED <<argv, apiToken, stats, unarchivedThreads, archived, i,
                   exitCode, result, gets, pages, puts, acks, errLogged,
                   prompts, wouldArchive, statsPrinted>>

\* one iteration of the while loop: the list request succeeds with resp
fetchMailThreads(resp) ==
    /\ pc = "getAllThreads"
    /\ hasMore
    /\ Len(allThreads) + Len(resp.data) <= MaxThreads
    /\ gets' = Append(gets, [start |-> start, limit |-> limit])
    /\ pages' = Append(pages, resp)
    /\ allThreads' = nextAllThreads(allThreads, resp)
    /\ start' = nextStart(start, resp)
    /\ hasMore' = nextHasMore(resp)
    /\ UNCHANGED <<pc, argv, apiToken, stats, unarchivedThreads, archived, i,
                   exitCode, result, puts, acks, errLogged, prompts,
                   wouldArchive, statsPrinted>>

\* faulty variant: fetchMailThreads swallows the error and the loop just stops, so the
\* run goes on with the pages fetched so far
fetchMailThreadsFails_swallowed ==
    /\ pc = "getAllThreads"
    /\ hasMore
    /\ gets' = Append(gets, [start |-> start, limit |-> limit])
    /\ hasMore' = FALSE
    /\ UNCHANGED <<pc, argv, apiToken, stats, allThreads, start,
                   unarchivedThreads, archived, i, exitCode, result, pages,
                   puts, acks, errLogged, prompts, wouldArchive, statsPrinted>>

\* one iteration of the while loop: the list request throws; fetchMailThreads
\* rethrows, getAllThreads propagates, run() catches and calls process.exit(1)
fetchMailThreadsFails ==
    /\ pc = "getAllThreads"
    /\ hasMore
    /\ gets' = Append(gets, [start |-> start, limit |-> limit])
    /\ pc' = "exited"
    /\ exitCode' = 1
    /\ result' = "fatal"
    /\ UNCHANGED <<argv, apiToken, stats, allThreads, hasMore, start,
                   unarchivedThreads, archived, i, pages, puts, acks,
                   errLogged, prompts, wouldArchive, statsPrinted>>

\* faulty variant: run() has no check for an empty inbox
getAllThreads_noEmptyCheck ==
    /\ pc = "getAllThreads"
    /\ ~hasMore
    /\ pc' = "displayThreadInfo"
    /\ UNCHANGED <<argv, apiToken, stats, allThreads, hasMore, start,
                   unarchivedThreads, archived, i, exitCode, result, gets,
                   pages, puts, acks, errLogged, prompts, wouldArchive,
                   statsPrinted>>

\* getAllThreads() returns; run() returns at once on an empty inbox, and the
\* process ends with code 0
getAllThreads ==
    /\ pc = "getAllThreads"
    /\ ~hasMore
    /\ IF Len(allThreads) = 0
       THEN /\ pc' = "exited"
            /\ exitCode' = 0
            /\ result' = "empty"
       ELSE /\ pc' = "displayThreadInfo"
            /\ UNCHANGED <<exitCode, result>>
    /\ UNCHANGED <<argv, apiToken, stats, allThreads, hasMore, start,
                   unarchivedThreads, archived, i, gets, pages, puts, acks,
                   errLogged, prompts, wouldArchive, statsPrinted>>

\* displayThreadInfo(allThreads); run() returns when nothing is unarchived
displayThreadInfo ==
    /\ pc = "displayThreadInfo"
    /\ unarchivedThreads' = filter(allThreads, FALSE)
    /\ archived' = filter(allThreads, TRUE)
    /\ IF Len(unarchivedThreads') = 0
       THEN /\ pc' = "exited"
            /\ exitCode' = 0
            /\ result' = "nothingToArchive"
       ELSE /\ pc' = "confirmArchive"
            /\ UNCHANGED <<exitCode, result>>
    /\ UNCHANGED <<argv, apiToken, stats, allThreads, hasMore, start, i, gets,
                   pages, puts, acks, errLogged, prompts, wouldArchive,
                   statsPrinted>>

\* confirmArchive(): return true at once with --yes/-y, else show the prompt
confirmArchive ==
    /\ pc = "confirmArchive"
    /\ IF skipConfirm
       THEN /\ pc' = "archiveAll"
            /\ UNCHANGED prompts
       ELSE /\ pc' = "prompt"
            /\ prompts' = prompts + 1
    /\ UNCHANGED <<argv, apiToken, stats, allThreads, hasMore, start,
                   unarchivedThreads, archived, i, exitCode, result, gets,
                   pages, puts, acks, errLogged, wouldArchive, statsPrinted>>

\* faulty variant: run() reports the cancellation but does not return
prompt_noReturn(answer) ==
    /\ pc = "prompt"
    /\ pc' = "archiveAll"
    /\ result' = IF answer THEN result ELSE "cancelled"
    /\ UNCHANGED <<argv, apiToken, stats, allThreads, hasMore, start,
                   unarchivedThreads, archived, i, exitCode, gets, pages, puts,
                   acks, errLogged, prompts, wouldArchive, statsPrinted>>

\* the user answers the prompt; run() returns when the answer is no
prompt(answer) ==
    /\ pc = "prompt"
    /\ IF answer
       THEN /\ pc' = "archiveAll"
            /\ UNCHANGED <<exitCode, result>>
       ELSE /\ pc' = "exited"
            /\ exitCode' = 0
            /\ result' = "cancelled"
    /\ UNCHANGED <<argv, apiToken, stats, allThreads, hasMore, start,
                   unarchivedThreads, archived, i, gets, pages, puts, acks,
                   errLogged, prompts, wouldArchive, statsPrinted>>

\* faulty variant: total is set before the dry-run branch
archiveAll_totalFirst ==
    /\ pc = "archiveAll"
    /\ stats' = statsAtLoopStart(stats, unarchivedThreads)
    /\ IF isDryRun
       THEN /\ wouldArchive' = unarchivedThreads
            /\ statsPrinted' = displayStats(stats')
            /\ pc' = "exited"
            /\ exitCode' = 0
            /\ result' = "finished"
            /\ UNCHANGED i
       ELSE /\ i' = 0
            /\ pc' = "archiveLoop"
            /\ UNCHANGED <<wouldArchive, statsPrinted, exitCode, result>>
    /\ UNCHANGED <<argv, apiToken, allThreads, hasMore, start,
                   unarchivedThreads, archived, gets, pages, puts, acks,
                   errLogged, prompts>>

\* archiveAll() up to its loop.  Dry run: the listing, then archiveAll returns,
\* displayStats() prints and run() returns.  Otherwise total is set and i = 0.
archiveAll ==
    /\ pc = "archiveAll"
    /\ IF isDryRun
       THEN /\ wouldArchive' = unarchivedThreads
            /\ statsPrinted' = displayStats(stats)
            /\ pc' = "exited"
            /\ exitCode' = 0
            /\ result' = "finished"
            /\ UNCHANGED <<stats, i>>
       ELSE /\ stats' = statsAtLoopStart(stats, unarchivedThreads)
            /\ i' = 0
            /\ pc' = "archiveLoop"
            /\ UNCHANGED <<wouldArchive, statsPrinted, exitCode, result>>
    /\ UNCHANGED <<argv, apiToken, allThreads, hasMore, start,
                   unarchivedThreads, archived, gets, pages, puts, acks,
                   errLogged, prompts>>

\* faulty variant: archiveThread has no try/catch, a thrown error reaches run()
archiveThread_uncaught(outcome) ==
    /\ pc = "archiveLoop"
    /\ loopContinues(i, unarchivedThreads)
    /\ puts' = Append(puts, putTarget(unarchivedThreads, i))
    /\ acks' = IF outcome = "success" THEN acks + 1 ELSE acks
    /\ IF outcome = "thrown"
       THEN /\ pc' = "exited"
            /\ exitCode' = 1
            /\ result' = "fatal"
            /\ UNCHANGED <<stats, errLogged, i, statsPrinted>>
       ELSE /\ stats' = statsAfterArchive(stats, outcome)
            /\ i' = i + 1
            /\ UNCHANGED errLogged
            /\ IF loopContinues(i', unarchivedThreads)
               THEN UNCHANGED <<pc, statsPrinted, exitCode, result>>
               ELSE /\ statsPrinted' = displayStats(stats')
                    /\ pc' = "exited"
                    /\ exitCode' = 0
                    /\ result' = "finished"
    /\ UNCHANGED <<argv, apiToken, allThreads, hasMore, start,
                   unarchivedThreads, archived, gets, pages, prompts,
                   wouldArchive>>

\* faulty variant: a PUT that throws is sent again for the same thread
archiveThread_retriesThrown(outcome) ==
    /\ pc = "archiveLoop"
    /\ loopContinues(i, unarchivedThreads)
    /\ puts' = Append(puts, putTarget(unarchivedThreads, i))
    /\ acks' = IF outcome = "success" THEN acks + 1 ELSE acks
    /\ errLogged' = IF logsError(outcome) THEN errLogged + 1 ELSE errLogged
    /\ IF outcome = "thrown"
       THEN UNCHANGED <<stats, i, pc, statsPrinted, exitCode, result>>
       ELSE /\ stats' = statsAfterArchive(stats, outcome)
            /\ i' = i + 1
            /\ IF loopContinues(i', unarchivedThreads)
               THEN UNCHANGED <<pc, statsPrinted, exitCode, result>>
               ELSE /\ statsPrinted' = displayStats(stats')
                    /\ pc' = "exited"
                    /\ exitCode' = 0
                    /\ result' = "finished"
    /\ UNCHANGED <<argv, apiToken, allThreads, hasMore, start,
                   unarchivedThreads, archived, gets, pages, prompts,
                   wouldArchive>>

\* one iteration of the for loop: archiveThread(thread.id) and the delay.
\* After the last thread the loop ends, archiveAll returns, displayStats()
\* prints and run() returns.
archiveThread(outcome) ==
    /\ pc = "archiveLoop"
    /\ loopContinues(i, unarchivedThreads)
    /\ puts' = Append(puts, putTarget(unarchivedThreads, i))
    /\ acks' = IF outcome = "success" THEN acks + 1 ELSE acks
    /\ stats' = statsAfterArchive(stats, outcome)
    /\ errLogged' = IF logsError(outcome) THEN errLogged + 1 ELSE errLogged
    /\ i' = i + 1
    /\ IF loopContinues(i', unarchivedThreads)
       THEN UNCHANGED <<pc, statsPrinted, exitCode, result>>
       ELSE /\ statsPrinted' = displayStats(stats')
            /\ pc' = "exited"
            /\ exitCode' = 0
            /\ result' = "finished"
    /\ UNCHANGED <<argv, apiToken, allThreads, hasMore, start,
                   unarchivedThreads, archived, gets, pages, prompts,
                   wouldArchive>>

Next ==
    \/ parseArgs
    \/ constructor
    \/ run
    \/ \E resp \in Responses : fetchMailThreads(resp)
    \/ fetchMailThreadsFails
    \/ getAllThreads
    \/ displayThreadInfo
    \/ confirmArchive
    \/ \E answer \in BOOLEAN : prompt(answer)
    \/ archiveAll
    \/ \E outcome \in PutOutcomes : archiveThread(outcome)

Spec == Init /\ [][Next]_vars

\* every request eventually returns or fails and the prompt is eventually
\* answered: the one sequential process always takes its next step
FairSpec == Init /\ [][Next]_vars /\ WF_vars(Next)

\* ---- what the claims talk about, read off the requests and responses ----
\* the thread was fetched with a falsy archived_flag
FetchedActive(t) == t.archived_flag = 0

\* the thread was fetched with a truthy archived_flag
FetchedArchived(t) == t.archived_flag # 0

\* the fetched threads with a falsy archived_flag, in fetched order
Candidates == SelectSeq(allThreads, FetchedActive)

\* how many PUT requests carried the given id
PutsTo(id) == Cardinality({k \in 1..Len(puts) : puts[k] = id})

\* how many candidates carry the given id
CandidatesWith(id) == Cardinality({k \in 1..Len(Candidates) : Candidates[k].id = id})

\* the items of the given pages, one after the other
RECURSIVE ItemsOf(_)
ItemsOf(ps) == IF ps = <<>> THEN <<>> ELSE Head(ps).data \o ItemsOf(Tail(ps))

\* a page that ends the collection: empty, or its indicator is not true
EndsCollection(p) == Len(p.data) = 0 \/ p.more # TRUE

\* a list request got no response: it failed
ListFailed == Len(gets) > Len(pages)

\* PUT requests that were not acknowledged (rejected or thrown)
PutFailures == Len(puts) - acks

\* displayThreadInfo has returned
Summarized ==
    \/ pc \in {"confirmArchive", "prompt", "archiveAll", "archiveLoop"}
    \/ result \in {"nothingToArchive", "cancelled", "finished"}

\* C1: with --dry-run on the command line no PUT request is ever issued,
\* whatever was fetched and whatever the user answered; archiveAll lists every
\* candidate as "Would archive" and returns without entering its loop.
C1_DryRunNeverPuts ==
    "--dry-run" \in argv =>
        /\ puts = <<>>
        /\ pc # "archiveLoop"
        /\ result = "finished" => wouldArchive = Candidates

C1_Witness ==
    /\ "--dry-run" \in argv
    /\ result = "finished"
    /\ Len(wouldArchive) >= 2
    /\ prompts = 1

\* C2: when the user declines the prompt the run ends without any PUT request
\* and total, archived, alreadyArchived and failed are all still 0.
C2_DeclinedLeavesAllZero ==
    result = "cancelled" =>
        /\ pc = "exited"
        /\ puts = <<>>
        /\ stats.total = 0
        /\ stats.archived = 0
        /\ stats.alreadyArchived = 0
        /\ stats.failed = 0

C2_Witness ==
    /\ result = "cancelled"
    /\ pc = "exited"
    /\ Len(Candidates) >= 2
    /\ "--dry-run" \notin argv

\* C3: when a list request fails, at the first page or after pages that were
\* fetched, no PUT request is issued, the prompt is not shown and the process
\* ends through the fatal-error exit with code 1.
C3_ListFailureIsFatal ==
    ListFailed =>
        /\ puts = <<>>
        /\ prompts = 0
        /\ pc = "exited"
        /\ exitCode = 1
        /\ result = "fatal"

C3_Witness ==
    /\ ListFailed
    /\ Len(pages) >= 1
    /\ Len(Candidates) >= 1
    /\ exitCode = 1

\* C4: every PUT request targets the id of a fetched thread whose archived_flag
\* was falsy, and no id receives more PUT requests than there are fetched
\* threads with that id and a falsy flag: a thread fetched as archived is
\* never submitted.
C4_OnlyUnarchivedArePut ==
    /\ \A k \in 1..Len(puts) :
          \E j \in 1..Len(allThreads) :
              /\ allThreads[j].id = puts[k]
              /\ FetchedActive(allThreads[j])
    /\ \A id \in ThreadIds : PutsTo(id) <= CandidatesWith(id)

C4_Witness ==
    /\ result = "finished"
    /\ Len(puts) >= 1
    /\ \E j \in 1..Len(allThreads) : FetchedArchived(allThreads[j])
    /\ \E j \in 1..Len(allThreads) : FetchedActive(allThreads[j])

\* C5: allThreads is the concatenation in order of the items of the pages
\* received; no page before the last one received is empty or has an
\* indicator that is not true; no list request follows such a page; and
\* when getAllThreads returns, the last page received is such a page.
C5_FetchAllConcatenatesPages ==
    /\ allThreads = ItemsOf(pages)
    /\ \A k \in 1..(Len(pages) - 1) : ~EndsCollection(pages[k])
    /\ (pages # <<>> /\ EndsCollection(pages[Len(pages)])) =>
          Len(gets) = Len(pages)
    /\ (pc # "getAllThreads" /\ ~ListFailed /\ pages # <<>>) =>
          EndsCollection(pages[Len(pages)])
    /\ (pc = "getAllThreads" /\ pages # <<>>) =>
          (hasMore <=> ~EndsCollection(pages[Len(pages)]))

C5_Witness ==
    /\ pc = "displayThreadInfo"
    /\ Len(pages) = 2
    /\ Len(pages[1].data) >= 1
    /\ Len(pages[2].data) >= 2
    /\ pages[2].more = FALSE

\* C6: a confirmed run without --dry-run over n unarchived threads of which
\* the service acknowledged k finishes with archived = k, failed = n - k and
\* total = n.
C6_FinalCounts ==
    (result = "finished" /\ "--dry-run" \notin argv) =>
        /\ Len(puts) = Len(Candidates)
        /\ stats.archived = acks
        /\ stats.failed = Len(Candidates) - acks
        /\ stats.total = Len(Candidates)

C6_Witness ==
    /\ result = "finished"
    /\ Len(Candidates) = 3
    /\ acks = 2
    /\ errLogged = 0
    /\ stats.archived = 2
    /\ stats.failed = 1
    /\ stats.total = 3

\* C7: archived + failed <= total in every state of a run.
C7_ArchivedPlusFailedAtMostTotal ==
    stats.archived + stats.failed <= stats.total

C7_Witness ==
    /\ pc = "archiveLoop"
    /\ stats.archived >= 1
    /\ stats.failed >= 1
    /\ stats.archived + stats.failed < stats.total

\* C8: displayThreadInfo puts every fetched thread into exactly one of the two
\* groups: unarchived holds the threads with a falsy archived_flag in fetched
\* order, archived holds those with a truthy flag, and the two lengths add
\* up to the number of fetched threads.
C8_ClassifyPartitions ==
    Summarized =>
        /\ unarchivedThreads = SelectSeq(allThreads, FetchedActive)
        /\ archived = SelectSeq(allThreads, FetchedArchived)
        /\ Len(unarchivedThreads) + Len(archived) = Len(allThreads)

C8_Witness ==
    /\ Summarized
    /\ Len(unarchivedThreads) = 2
    /\ unarchivedThreads[1].id # unarchivedThreads[2].id
    /\ Len(archived) = 1

\* C9: with --yes or -y on the command line the prompt is never invoked.
C9_YesNeverPrompts ==
    ("--yes" \in argv \/ "-y" \in argv) =>
        /\ prompts = 0
        /\ pc # "prompt"

C9_Witness ==
    /\ "-y" \in argv
    /\ "--yes" \notin argv
    /\ result = "finished"
    /\ Len(puts) >= 1

\* C10: a PUT that fails never aborts the batch: after a failure the loop is
\* still running with threads left to submit, or every candidate has been
\* submitted and the run has ended normally with code 0.
C10_FailureNeverAbortsBatch ==
    PutFailures > 0 =>
        \/ /\ pc = "archiveLoop"
           /\ Len(puts) < Len(Candidates)
        \/ /\ pc = "exited"
           /\ Len(puts) = Len(Candidates)
           /\ result = "finished"
           /\ exitCode = 0

C10_Witness ==
    /\ pc = "exited"
    /\ exitCode = 0
    /\ Len(puts) = 3
    /\ acks = 2
    /\ errLogged = 1
    /\ stats.failed = 1

\* --help or -h is on the command line
HelpAsked == "--help" \in argv \/ "-h" \in argv

\* C11: the process exits with code 0 when help is requested or the run
\* completes normally, and with code 1 when the API token is missing or a
\* list request failed.
C11_ExitCodes ==
    pc = "exited" =>
        exitCode = (IF HelpAsked THEN 0
                    ELSE IF ~apiToken THEN 1
                    ELSE IF ListFailed THEN 1
                    ELSE 0)

C11_Witness ==
    /\ pc = "exited"
    /\ ~HelpAsked
    /\ ~apiToken
    /\ exitCode = 1

\* --yes or -y is on the command line
YesGiven == "--yes" \in argv \/ "-y" \in argv

\* the run came to the confirmation gate and passed it: the flag skipped
\* it, or the prompt was shown and not declined
GatePassed ==
    /\ ~HelpAsked
    /\ apiToken
    /\ ~ListFailed
    /\ Len(Candidates) > 0
    /\ YesGiven \/ (prompts = 1 /\ result # "cancelled")

\* C12: a run that has ended has printed the final statistics exactly when
\* it passed the confirmation gate; they are not printed when nothing is
\* unarchived or the user declined, and never before the end of the run.
C12_StatsPrintedIffGatePassed ==
    /\ pc = "exited" => (statsPrinted # <<>> <=> GatePassed)
    /\ pc # "exited" => statsPrinted = <<>>
    /\ statsPrinted # <<>> =>
          statsPrinted = <<[total |-> stats.total,
                            archived |-> stats.archived,
                            failed |-> stats.failed]>>

C12_Witness ==
    /\ pc = "exited"
    /\ statsPrinted # <<>>
    /\ "--dry-run" \in argv
    /\ ~YesGiven

\* C13: the ids sent in PUT requests are, in order and one each, the ids of
\* the fetched threads with a falsy flag: at every moment a prefix of that
\* list, and the whole list when a confirmed run without --dry-run has
\* finished.  No list request is repeated: the start offsets requested are
\* pairwise different, and nothing is requested after a failed one.
C13_OnePutPerCandidateInOrder ==
    /\ Len(puts) <= Len(Candidates)
    /\ \A k \in 1..Len(puts) : puts[k] = Candidates[k].id
    /\ (result = "finished" /\ "--dry-run" \notin argv) =>
          Len(puts) = Len(Candidates)
    /\ \A j, k \in 1..Len(gets) : j # k => gets[j].start # gets[k].start
    /\ ListFailed => (pc = "exited" /\ Len(gets) = Len(pages) + 1)

C13_Witness ==
    /\ result = "finished"
    /\ puts = <<1, 2, 1>>
    /\ acks = 1
    /\ Len(gets) >= 2

\* C14: the k-th list request of a run carries start = 100 * (k - 1) and
\* limit = 100, however many items the earlier pages held.
C14_OffsetsAdvanceByPageSize ==
    \A k \in 1..Len(gets) :
        /\ gets[k].start = 100 * (k - 1)
        /\ gets[k].limit = 100

C14_Witness ==
    /\ Len(gets) = 3
    /\ gets[3].start = 200
    /\ Len(pages) = 3
    /\ Len(pages[1].data) = 1
    /\ Len(pages[2].data) = 2

\* C15: every PUT that fails, by a thrown error or by a response without
\* success, is handled the same way: it writes one log line and adds exactly
\* one to failed, leaving archived alone.
C15_EveryFailureLoggedAndCounted ==
    /\ errLogged = PutFailures
    /\ stats.failed = PutFailures
    /\ stats.archived = acks

\* the state of the run lifecycle the process is in
Phase ==
    CASE pc \in {"parseArgs", "constructor", "run"} -> "Start"
      [] pc = "getAllThreads" -> "Fetching"
      [] pc = "displayThreadInfo" -> "Summarizing"
      [] pc \in {"confirmArchive", "prompt"} -> "Confirming"
      [] pc \in {"archiveAll", "archiveLoop"} -> "Archiving"
      [] pc = "exited" -> "Done"

\* the steps the lifecycle has apart from a successful fetch: out of Start,
\* out of a failed fetch, and from Summarizing on
LifecycleStep(from, to) ==
    \/ from = "Start" /\ to = "Fetching"
    \/ from = "Start" /\ to = "Done" /\ (HelpAsked \/ ~apiToken)
    \/ from = "Fetching" /\ to = "Done" /\ ListFailed'
    \/ from = "Summarizing" /\ to = "Done" /\ Len(Candidates) = 0
    \/ from = "Summarizing" /\ to = "Confirming" /\ Len(Candidates) > 0
    \/ from = "Confirming" /\ to = "Done" /\ prompts = 1 /\ result' = "cancelled"
    \/ from = "Confirming" /\ to = "Archiving"
          /\ (YesGiven \/ (prompts = 1 /\ result' # "cancelled"))
    \/ from = "Archiving" /\ to = "Done"

\* C16 as stated: a fetch that succeeded is always followed by Summarizing,
\* and every other change of state is a step of the lifecycle, so that no
\* state is skipped or entered twice.
C16_LifecycleAsStated ==
    [][Phase' # Phase =>
          \/ Phase = "Fetching" /\ Phase' = "Summarizing" /\ ~ListFailed'
          \/ LifecycleStep(Phase, Phase')]_vars

\* C16 amended: a fetch that succeeded is followed by Summarizing when it
\* returned at least one thread and by Done when it returned none; every
\* other change of state is a step of the lifecycle.
C16_LifecycleWithEmptyInbox ==
    [][Phase' # Phase =>
          \/ /\ Phase = "Fetching" /\ Phase' = "Summarizing"
             /\ ~ListFailed' /\ Len(allThreads) > 0
          \/ /\ Phase = "Fetching" /\ Phase' = "Done"
             /\ ~ListFailed' /\ Len(allThreads) = 0
          \/ LifecycleStep(Phase, Phase')]_vars

C16_Witness ==
    /\ Phase = "Done"
    /\ result = "empty"
    /\ Len(pages) = 1
    /\ ~ListFailed

\* the work a run has left: the steps to the end of the run at most
StepsLeft ==
    CASE pc = "parseArgs" -> 2 * MaxThreads + 10
      [] pc = "constructor" -> 2 * MaxThreads + 9
      [] pc = "run" -> 2 * MaxThreads + 8
      [] pc = "getAllThreads" ->
            MaxThreads + 5
            + (IF hasMore THEN MaxThreads - Len(allThreads) + 2 ELSE 0)
      [] pc = "displayThreadInfo" -> MaxThreads + 4
      [] pc = "confirmArchive" -> MaxThreads + 3
      [] pc = "prompt" -> MaxThreads + 2
      [] pc = "archiveAll" -> MaxThreads + 1
      [] pc = "archiveLoop" -> Len(unarchivedThreads) - i
      [] pc = "exited" -> 0

C18_DryRunStillConfirms ==
    ("--dry-run" \in argv /\ ~YesGiven) =>
        /\ (wouldArchive # <<>> \/ Phase = "Archiving") => prompts = 1
        /\ result = "cancelled" => (wouldArchive = <<>> /\ prompts = 1)
        /\ (pc = "exited" /\ GatePassed) => wouldArchive = Candidates

C18_Witness ==
    /\ "--dry-run" \in argv
    /\ ~YesGiven
    /\ result = "cancelled"
    /\ prompts = 1
    /\ Len(Candidates) >= 1

\* C19: a dry run leaves the statistics untouched: total, archived,
\* alreadyArchived and failed are 0 in every state, total is not set to the
\* number of candidates, and displayStats prints these zeros.
C19_DryRunLeavesStatsZero ==
    "--dry-run" \in argv =>
        /\ stats = [total |-> 0, archived |-> 0, alreadyArchived |-> 0, failed |-> 0]
        /\ statsPrinted # <<>> =>
              statsPrinted = <<[total |-> 0, archived |-> 0, failed |-> 0]>>
        /\ wouldArchive # <<>> => statsPrinted # <<>>

C19_Witness ==
    /\ "--dry-run" \in argv
    /\ Len(wouldArchive) = 3
    /\ statsPrinted # <<>>
    /\ stats.total = 0

\* C20: help comes first: with --help or -h the process exits with code 0
\* without a list request, a prompt or a PUT request and without looking at
\* the token, whatever other flags are given.
C20_HelpComesFirst ==
    HelpAsked =>
        /\ pc \in {"parseArgs", "exited"}
        /\ pc = "exited" => (exitCode = 0 /\ result = "help")
        /\ gets = <<>>
        /\ prompts = 0
        /\ puts = <<>>

C20_Witness ==
    /\ "-h" \in argv
    /\ "--help" \notin argv
    /\ "--yes" \in argv
    /\ "--dry-run" \in argv
    /\ ~apiToken
    /\ pc = "exited"
    /\ exitCode = 0

====
